---- MODULE Spec2Model ----
(***************************************************************************)
(* A model of auto_anonymize/anonymize_vid.py: one run of anonymize_vid,   *)
(* statement group by statement group.  The collaborators the function     *)
(* imports (pkg_utils, viz, face_detection, recognize_face) are modelled   *)
(* by their contracts; every call made to them is recorded in `calls`.     *)
(***************************************************************************)
EXTENDS Naturals, Sequences, FiniteSets

\* ------------------------------------------------------------------ bounds
MaxFrames == 2     \* longest source video, in frames
MaxFiles == 2      \* most files found under known_faces_loc

\* People whose faces can appear in an image.
Persons == {"ann", "bob"}

\* The faces visible in one image, in the detector's (stable) region order.
FaceLists == {<<>>, <<"ann">>, <<"ann", "bob">>}

\* Paths the caller may pass as src and dst, as sequences of characters.
SrcNames ==
    { <<"a", ".", "m", "o", "v">>,
      <<"a", ".", "M", "P", "4">>,
      <<"a", ".", "a", "v", "i">>,
      <<"m", "p", "4", ".", "g", "z">> }

DstNames ==
    { <<"d", "/", "o", ".", "M", "p", "4">>,
      <<"o", ".", "m", "o", "v">>,
      <<"o">> }

\* ------------------------------------------------------- string helpers
\* str.lower() on one character (the alphabet of SrcNames and DstNames).
LowerChar(c) ==
    CASE c = "M" -> "m"
      [] c = "P" -> "p"
      [] c = "O" -> "o"
      [] c = "V" -> "v"
      [] OTHER -> c

\* str.lower()
Lower(s) == [i \in 1..Len(s) |-> LowerChar(s[i])]

\* s.split('.')[-1]: the text after the last '.', or all of s without one.
SplitLast(s) ==
    LET dots == {i \in 1..Len(s) : s[i] = "."}
        last == IF dots = {} THEN 0
                ELSE CHOOSE i \in dots : \A j \in dots : j <= i
    IN  SubSeq(s, last + 1, Len(s))

\* line 35: src.split('.')[-1].lower() in ['mov', 'mp4']
ValidSrc(s) == Lower(SplitLast(s)) \in {<<"m", "o", "v">>, <<"m", "p", "4">>}

\* The destination checked with the source's test (accepts 'mov').
ValidDst_AsSrc(d) == ValidSrc(d)

\* line 36: dst.split('.')[-1].lower() == 'mp4'
ValidDst(d) == Lower(SplitLast(d)) = <<"m", "p", "4">>

\* ------------------------------------------------------------ images
\* An image: which one it is, its channel order, the faces in it and what
\* has been drawn over each face so far.
Image(id, order, faces) ==
    [id |-> id, order |-> order, faces |-> faces,
     fx |-> [i \in 1..Len(faces) |-> "raw"]]

\* pkg_utils.to_rgb: the decoder's BGR frame in RGB channel order.
to_rgb(frame) == [frame EXCEPT !.order = "RGB"]

\* cv2.cvtColor(rgb, cv2.COLOR_RGB2BGR)
cvtColor_RGB2BGR(img) == [img EXCEPT !.order = "BGR"]

\* pkg_utils.rgb_read: a reference image file read as an RGB image.
rgb_read(id, faces) == Image(id, "RGB", faces)

\* detect_fn(rgb): one region per face, in a stable order.  A region is the
\* position of its face in the image.
detect_faces(img) == [i \in 1..Len(img.faces) |-> i]

\* recognize_face.embed_face: one descriptor per region, index-aligned.
embed_face(img, locs) == [i \in 1..Len(locs) |-> [vec |-> img.faces[locs[i]]]]

\* recognize_face.recognize_face: per query descriptor, whether some gallery
\* descriptor is within tolerance of it.
recognize_face(face_encs, known_encs) ==
    [i \in 1..Len(face_encs) |->
        \E j \in 1..Len(known_encs) : known_encs[j].vec = face_encs[i].vec]

\* The match information handed to the marker and blur stages: None, or one
\* boolean per region.
None == [some |-> FALSE, val |-> <<>>]
Some(v) == [some |-> TRUE, val |-> v]

\* viz.mark_faces_cv2: draws in place a marker on every region known to match.
mark_faces_cv2(img, locs, rec) ==
    [img EXCEPT !.fx =
        [k \in 1..Len(img.fx) |->
            IF \E i \in 1..Len(locs) :
                  locs[i] = k /\ rec.some /\ i <= Len(rec.val) /\ rec.val[i]
            THEN "marked" ELSE img.fx[k]]]

\* viz.blur_faces: blurs every region that is not known to match.
blur_faces(img, locs, rec) ==
    [img EXCEPT !.fx =
        [k \in 1..Len(img.fx) |->
            IF \E i \in 1..Len(locs) :
                  locs[i] = k /\ ~(rec.some /\ i <= Len(rec.val) /\ rec.val[i])
            THEN "blurred" ELSE img.fx[k]]]

\* One recorded call of a collaborator.
Call(op, phase, img, regions, encs, known, rec) ==
    [op |-> op, phase |-> phase, img |-> img, regions |-> regions,
     encs |-> encs, known |-> known, rec |-> rec]

\* Every file taken as a reference image, whatever its extension.
JpgFiles_AnyFile(files) == files

\* '*.jpg' applied to a directory listing (line 63).
JpgFiles(files) == SelectSeq(files, LAMBDA f : f.jpg)

\* A frame without faces skipped altogether, never reaching out.write().
AfterDetect_SkipsWrite(p, face_rec) ==
    IF Len(p) = 0 THEN "loop"
    ELSE IF face_rec THEN "recognize" ELSE "annotate"

\* The `if len(preds)` guard left out.
AfterDetect_NoGuard(p, face_rec) ==
    IF face_rec THEN "recognize" ELSE "annotate"

\* Lines 94 and 97: where the loop body goes once detection has returned.
AfterDetect(p, face_rec) ==
    IF Len(p) = 0 THEN "write"
    ELSE IF face_rec THEN "recognize" ELSE "annotate"

\* `recognized` passed whether or not recognition is on.
MatchArg_Always(face_rec, rec) == Some(rec)

\* The match results passed in the opposite order to the regions.
MatchArg_Reversed(face_rec, rec) ==
    IF face_rec THEN Some([i \in 1..Len(rec) |-> rec[Len(rec) + 1 - i]])
    ELSE None

\* Lines 108-109: `recognized if perform_face_rec else None`.
MatchArg(face_rec, rec) == IF face_rec THEN Some(rec) ELSE None

\* ------------------------------------------------------------- state
VARIABLES
    pc,                   \* the statement group the run is at
    src, dst,             \* arguments: the two paths
    known_given,          \* argument: known_faces_loc is not None
    use_retinanet,        \* argument
    profile,              \* argument
    retinanet_loads,      \* how many times load_retinanet() has run
    detect_fn,            \* the detection function selected
    cap,                  \* the cv2.VideoCapture on src
    out,                  \* the cv2.VideoWriter on dst
    dir_made,             \* dst's parent directory has been created
    listing,              \* the files under known_faces_loc
    known_faces,          \* the '*.jpg' files among them
    file_i,               \* how many of known_faces the for loop has done
    perform_face_rec,
    recognized_face_encs,
    warned,               \* warnings emitted
    frame, rgb, preds, face_encs, recognized,   \* locals of the loop body
    frames_read,          \* every frame cap.read() has returned
    written,              \* every frame passed to out.write()
    detect_times, recog_times,
    summary,              \* what the profiling summary printed
    calls                 \* every collaborator call made, in order

args == <<src, dst, known_given, use_retinanet, profile>>
io == <<cap, out, dir_made, frames_read, written>>
gal == <<listing, known_faces, file_i, perform_face_rec,
             recognized_face_encs, warned>>
locals == <<frame, rgb, preds, face_encs, recognized>>
prof == <<detect_times, recog_times, summary>>
vars == <<pc, args, retinanet_loads, detect_fn, io, gal, locals, prof,
          calls>>

\* Sequences over S of length at most n.
RECURSIVE SeqsUpTo(_, _)
SeqsUpTo(S, n) ==
    IF n = 0 THEN {<<>>}
    ELSE LET shorter == SeqsUpTo(S, n - 1)
         IN  shorter \cup {Append(s, x) : s \in shorter, x \in S}

\* A file under known_faces_loc: whether '*.jpg' matches it, and the faces
\* in the picture.
Files == {[jpg |-> FALSE, faces |-> <<"ann">>]}
            \cup {[jpg |-> TRUE, faces |-> f] : f \in {<<>>, <<"ann">>, <<"bob">>}}

NoImage == Image(0, "BGR", <<>>)

Init ==
    /\ pc = "validate"
    /\ src \in SrcNames
    /\ dst \in DstNames
    /\ known_given \in BOOLEAN
    /\ use_retinanet \in BOOLEAN
    /\ profile \in BOOLEAN
    /\ retinanet_loads = 0
    /\ detect_fn = "unset"
    /\ cap = [created |-> FALSE, opened |-> FALSE, released |-> FALSE,
              count |-> 0, pos |-> 0]
    /\ out = [created |-> FALSE, released |-> FALSE]
    /\ dir_made = FALSE
    /\ listing = <<>>
    /\ known_faces = <<>>
    /\ file_i = 0
    /\ perform_face_rec = FALSE
    /\ recognized_face_encs = <<>>
    /\ warned = 0
    /\ frame = NoImage
    /\ rgb = NoImage
    /\ preds = <<>>
    /\ face_encs = <<>>
    /\ recognized = <<>>
    /\ frames_read = <<>>
    /\ written = <<>>
    /\ detect_times = <<>>
    /\ recog_times = <<>>
    /\ summary = <<>>
    /\ calls = <<>>

\* ------------------------------------------------------------ actions
\* Lines 35-36: the two assertions on the paths' extensions.
Validate ==
    /\ pc = "validate"
    /\ pc' = IF ValidSrc(src) /\ ValidDst(dst) THEN "select" ELSE "aborted"
    /\ UNCHANGED <<args, retinanet_loads, detect_fn, io, gal, locals,
                   prof, calls>>

\* The neural model loaded whichever detector is selected.
SelectDetector_LoadsAlways ==
    /\ pc = "select"
    /\ retinanet_loads' = retinanet_loads + 1
    /\ detect_fn' = IF use_retinanet THEN "retinanet" ELSE "haar"
    /\ pc' = "open"
    /\ UNCHANGED <<args, io, gal, locals, prof, calls>>

\* Lines 43-47: the detection function, with the model load it may need.
SelectDetector ==
    /\ pc = "select"
    /\ IF use_retinanet
       THEN /\ retinanet_loads' = retinanet_loads + 1
            /\ detect_fn' = "retinanet"
       ELSE /\ retinanet_loads' = retinanet_loads
            /\ detect_fn' = "haar"
    /\ pc' = "open"
    /\ UNCHANGED <<args, io, gal, locals, prof, calls>>

\* Lines 50-58: the capture on src (which may fail to open; FRAME_COUNT is
\* the number of frames it will deliver), dst's directory and the writer.
OpenStreams ==
    /\ pc = "open"
    /\ \E opened \in BOOLEAN :
         \E n \in 0..MaxFrames :
            /\ (~opened => n = 0)
            /\ cap' = [created |-> TRUE, opened |-> opened, released |-> FALSE,
                       count |-> n, pos |-> 0]
    /\ dir_made' = TRUE
    /\ out' = [created |-> TRUE, released |-> FALSE]
    /\ pc' = "gallery"
    /\ UNCHANGED <<args, retinanet_loads, detect_fn, frames_read, written,
                   gal, locals, prof, calls>>

\* Lines 61-67: the reference images under known_faces_loc, if one is given.
GalleryScan ==
    /\ pc = "gallery"
    /\ IF known_given
       THEN \E files \in SeqsUpTo(Files, MaxFiles) :
              /\ listing' = files
              /\ known_faces' = JpgFiles(files)
              /\ IF Len(JpgFiles(files)) = 0
                 THEN /\ warned' = warned + 1
                      /\ perform_face_rec' = FALSE
                      /\ pc' = "loop"
                 ELSE /\ warned' = warned
                      /\ perform_face_rec' = TRUE
                      /\ pc' = "encode"
       ELSE /\ pc' = "loop"
            /\ UNCHANGED <<listing, known_faces, warned, perform_face_rec>>
    /\ UNCHANGED <<args, retinanet_loads, detect_fn, io, file_i,
                   recognized_face_encs, locals, prof, calls>>

\* Lines 69-72: one pass of the for loop over known_faces.
EncodeKnownFace ==
    /\ pc = "encode"
    /\ file_i < Len(known_faces)
    /\ LET face_rgb == rgb_read(file_i + 1, known_faces[file_i + 1].faces)
           face_loc == detect_faces(face_rgb)
       IN  /\ recognized_face_encs' = embed_face(face_rgb, face_loc)
           /\ calls' = calls \o
                 << Call(detect_fn, "gallery", face_rgb.id, face_loc, <<>>, <<>>,
                         None),
                    Call("embed", "gallery", face_rgb.id, face_loc,
                         embed_face(face_rgb, face_loc), <<>>, None) >>
    /\ file_i' = file_i + 1
    /\ pc' = IF file_i + 1 = Len(known_faces) THEN "loop" ELSE "encode"
    /\ UNCHANGED <<args, retinanet_loads, detect_fn, io, listing, known_faces,
                   perform_face_rec, warned, locals, prof>>

\* Lines 80-82: the while test and a cap.read() that returns a frame.
ReadFrame ==
    /\ pc = "loop"
    /\ cap.opened
    /\ cap.pos < cap.count
    /\ \E faces \in FaceLists :
         /\ frame' = Image(cap.pos + 1, "BGR", faces)
         /\ frames_read' = Append(frames_read, Image(cap.pos + 1, "BGR", faces))
    /\ cap' = [cap EXCEPT !.pos = cap.pos + 1]
    /\ pc' = "detect"
    /\ UNCHANGED <<args, retinanet_loads, detect_fn, out, dir_made, written,
                   gal, rgb, preds, face_encs, recognized, prof, calls>>

\* The loop left only on a capture that is not open: the `if not ret: break`
\* of line 82 left out.
EndOfStream_NoBreak ==
    /\ pc = "loop"
    /\ ~cap.opened
    /\ pc' = "release"
    /\ UNCHANGED <<args, retinanet_loads, detect_fn, io, gal, locals, prof,
                   calls>>

\* Lines 80-82: the loop ends, on a capture that is not open or on a
\* cap.read() that returns no frame.
EndOfStream ==
    /\ pc = "loop"
    /\ ~cap.opened \/ cap.pos = cap.count
    /\ pc' = "release"
    /\ UNCHANGED <<args, retinanet_loads, detect_fn, io, gal, locals, prof,
                   calls>>

\* The detection time recorded only for a frame in which a face was found.
Detect_TimesFacesOnly ==
    /\ pc = "detect"
    /\ rgb' = to_rgb(frame)
    /\ preds' = detect_faces(to_rgb(frame))
    /\ detect_times' = IF profile /\ Len(detect_faces(to_rgb(frame))) > 0
                       THEN Append(detect_times, frame.id)
                       ELSE detect_times
    /\ calls' = Append(calls, Call(detect_fn, "loop", frame.id,
                                    detect_faces(to_rgb(frame)), <<>>, <<>>,
                                    None))
    /\ pc' = AfterDetect(detect_faces(to_rgb(frame)), perform_face_rec)
    /\ UNCHANGED <<args, retinanet_loads, detect_fn, io, gal, frame, face_encs,
                   recognized, recog_times, summary>>

\* Lines 84-92: colour conversion, then detection in one of two branches:
\* timed (lines 88-90) when profiling, plain (line 92) when not.
Detect ==
    /\ pc = "detect"
    /\ rgb' = to_rgb(frame)
    /\ IF profile
       THEN /\ preds' = detect_faces(to_rgb(frame))
            /\ detect_times' = Append(detect_times, frame.id)
            /\ calls' = Append(calls, Call(detect_fn, "loop", frame.id,
                                           detect_faces(to_rgb(frame)),
                                           <<>>, <<>>, None))
       ELSE /\ preds' = detect_faces(to_rgb(frame))
            /\ detect_times' = detect_times
            /\ calls' = Append(calls, Call(detect_fn, "loop", frame.id,
                                           detect_faces(to_rgb(frame)),
                                           <<>>, <<>>, None))
    /\ pc' = AfterDetect(preds', perform_face_rec)
    /\ UNCHANGED <<args, retinanet_loads, detect_fn, io, gal, frame, face_encs,
                   recognized, recog_times, summary>>

\* The match results of the first matched frame kept for the frames after it.
Recognize_KeepsEarlier ==
    /\ pc = "recognize"
    /\ face_encs' = embed_face(rgb, preds)
    /\ recognized' =
          IF recognized = <<>>
          THEN recognize_face(embed_face(rgb, preds), recognized_face_encs)
          ELSE recognized
    /\ recog_times' = IF profile THEN Append(recog_times, rgb.id)
                                  ELSE recog_times
    /\ calls' = calls \o
          << Call("embed", "loop", rgb.id, preds, embed_face(rgb, preds), <<>>,
                  None),
             Call("recognize", "loop", rgb.id, <<>>, embed_face(rgb, preds),
                  recognized_face_encs,
                  Some(recognize_face(embed_face(rgb, preds),
                                      recognized_face_encs))) >>
    /\ pc' = "annotate"
    /\ UNCHANGED <<args, retinanet_loads, detect_fn, io, gal, frame, rgb, preds,
                   detect_times, summary>>

\* The two calls of lines 100-101 and 104-105, as recorded.
RecognizeCalls ==
    << Call("embed", "loop", rgb.id, preds, embed_face(rgb, preds), <<>>, None),
       Call("recognize", "loop", rgb.id, <<>>, embed_face(rgb, preds),
            recognized_face_encs,
            Some(recognize_face(embed_face(rgb, preds), recognized_face_encs))) >>

\* The timed branch embedding only, its recognize_face call left out.
Recognize_TimedEmbedsOnly ==
    /\ pc = "recognize"
    /\ IF profile
       THEN /\ face_encs' = embed_face(rgb, preds)
            /\ recognized' = recognized
            /\ recog_times' = Append(recog_times, rgb.id)
            /\ calls' = Append(calls, RecognizeCalls[1])
       ELSE /\ face_encs' = embed_face(rgb, preds)
            /\ recognized' = recognize_face(face_encs', recognized_face_encs)
            /\ recog_times' = recog_times
            /\ calls' = calls \o RecognizeCalls
    /\ pc' = "annotate"
    /\ UNCHANGED <<args, retinanet_loads, detect_fn, io, gal, frame, rgb, preds,
                   detect_times, summary>>

\* Lines 97-105: embedding and matching in one of two branches: timed
\* (lines 99-102) when profiling, plain (lines 104-105) when not.
Recognize ==
    /\ pc = "recognize"
    /\ IF profile
       THEN /\ face_encs' = embed_face(rgb, preds)
            /\ recognized' = recognize_face(face_encs', recognized_face_encs)
            /\ recog_times' = Append(recog_times, rgb.id)
            /\ calls' = calls \o RecognizeCalls
       ELSE /\ face_encs' = embed_face(rgb, preds)
            /\ recognized' = recognize_face(face_encs', recognized_face_encs)
            /\ recog_times' = recog_times
            /\ calls' = calls \o RecognizeCalls
    /\ pc' = "annotate"
    /\ UNCHANGED <<args, retinanet_loads, detect_fn, io, gal, frame, rgb, preds,
                   detect_times, summary>>

\* Lines 108-110: markers drawn in place, then the blur.
Annotate ==
    /\ pc = "annotate"
    /\ LET rec == MatchArg(perform_face_rec, recognized)
       IN  /\ rgb' = blur_faces(mark_faces_cv2(rgb, preds, rec), preds, rec)
           /\ calls' = calls \o
                 << Call("mark", "loop", rgb.id, preds, <<>>, <<>>, rec),
                    Call("blur", "loop", rgb.id, preds, <<>>, <<>>, rec) >>
    /\ pc' = "write"
    /\ UNCHANGED <<args, retinanet_loads, detect_fn, io, gal, frame, preds,
                   face_encs, recognized, prof>>

\* Lines 113-114: back to BGR and out to the writer.
WriteFrame ==
    /\ pc = "write"
    /\ written' = Append(written, cvtColor_RGB2BGR(rgb))
    /\ pc' = "loop"
    /\ UNCHANGED <<args, retinanet_loads, detect_fn, cap, out, dir_made,
                   frames_read, gal, locals, prof, calls>>

\* Line 115: cap.release().
Release ==
    /\ pc = "release"
    /\ cap' = [cap EXCEPT !.opened = FALSE, !.released = TRUE]
    /\ pc' = "summarize"
    /\ UNCHANGED <<args, retinanet_loads, detect_fn, out, dir_made,
                   frames_read, written, gal, locals, prof, calls>>

\* Lines 118-125: the profiling summary; then the function returns.
Summarize ==
    /\ pc = "summarize"
    /\ summary' = IF profile
                  THEN <<[frames |-> cap.count,
                          detect_n |-> Len(detect_times),
                          recog_n |-> Len(recog_times)]>>
                  ELSE summary
    /\ pc' = "done"
    /\ UNCHANGED <<args, retinanet_loads, detect_fn, io, gal, locals,
                   detect_times, recog_times, calls>>

Next ==
    \/ Validate
    \/ SelectDetector
    \/ OpenStreams
    \/ GalleryScan
    \/ EncodeKnownFace
    \/ ReadFrame
    \/ EndOfStream
    \/ Detect
    \/ Recognize
    \/ Annotate
    \/ WriteFrame
    \/ Release
    \/ Summarize

Spec == Init /\ [][Next]_vars

\* ------------------------------------------------------ properties
\* Where the run is once the gallery stage is over.
InLoop == pc \in {"loop", "detect", "recognize", "annotate", "write"}
PastGallery == InLoop \/ pc \in {"release", "summarize", "done"}

\* The calls recorded for frame k of the loop, by operation.
LoopCalls(ops, k) ==
    {i \in 1..Len(calls) :
        calls[i].phase = "loop" /\ calls[i].img = k /\ calls[i].op \in ops}

\* C1: every frame read is written exactly once and in the order read: the
\* frames written are the frames read so far, one for one, less the one the
\* loop body is still working on; on return none is missing.
FramesWrittenAsRead ==
    /\ Len(frames_read) =
          Len(written) + (IF pc \in {"detect", "recognize", "annotate", "write"}
                          THEN 1 ELSE 0)
    /\ \A i \in 1..Len(written) :
          /\ written[i].id = i
          /\ written[i].id = frames_read[i].id
          /\ written[i].faces = frames_read[i].faces
    /\ (pc = "done" => Len(written) = Len(frames_read))
    /\ (pc = "done" /\ cap.created => Len(written) = cap.count)

\* A run that has returned after writing two frames with different content.
FramesWrittenAsRead_Witness ==
    /\ pc = "done"
    /\ Len(written) >= 2
    /\ written[1].faces # written[2].faces

\* The src and dst paths whose extension is acceptable, listed by hand.
GoodSrc == { <<"a", ".", "m", "o", "v">>, <<"a", ".", "M", "P", "4">> }
GoodDst == { <<"d", "/", "o", ".", "M", "p", "4">> }

\* C2: with a src whose extension is not mov or mp4, or a dst whose extension
\* is not mp4, the run never gets past validation, and a run that has aborted
\* has loaded no model, opened no capture, created no directory or writer,
\* read and written no frame and called no collaborator.
ValidationBeforeEffects ==
    /\ (src \notin GoodSrc \/ dst \notin GoodDst) => pc \in {"validate", "aborted"}
    /\ pc \in {"validate", "aborted"} =>
          /\ retinanet_loads = 0
          /\ detect_fn = "unset"
          /\ ~cap.created
          /\ ~out.created
          /\ ~dir_made
          /\ frames_read = <<>>
          /\ written = <<>>
          /\ calls = <<>>

\* A run aborted on its dst alone: the src is fine, the dst is a .mov.
ValidationBeforeEffects_Witness ==
    /\ pc = "aborted"
    /\ src \in GoodSrc
    /\ dst = <<"o", ".", "m", "o", "v">>

\* What a run without known_faces_loc writes for a frame it has read.
NoGalleryOutput(f) ==
    LET r == to_rgb(f)
        p == detect_faces(r)
    IN  cvtColor_RGB2BGR(
            IF Len(p) = 0 THEN r
            ELSE blur_faces(mark_faces_cv2(r, p, None), p, None))

WrittenAsWithoutGallery ==
    \A i \in 1..Len(written) : written[i] = NoGalleryOutput(frames_read[i])

\* known_faces_loc was given and no file under it is a .jpg.
NoEligibleImage ==
    /\ known_given
    /\ PastGallery
    /\ \A i \in 1..Len(listing) : ~listing[i].jpg

\* C3: a gallery directory without a .jpg file does not stop the run: one
\* warning is emitted, recognition stays off, the run can always take its
\* next step until it returns, no embedding or matching is done, the marker
\* and blur stages get no match information, and the frames written are those
\* a run without known_faces_loc (which warns of nothing) writes.
EmptyGalleryDegrades ==
    /\ warned <= 1
    /\ NoEligibleImage =>
          /\ warned = 1
          /\ ~perform_face_rec
          /\ (pc # "done" => ENABLED Next)
          /\ \A i \in 1..Len(calls) :
                /\ calls[i].op \notin {"embed", "recognize"}
                /\ calls[i].op \in {"mark", "blur"} => calls[i].rec = None
          /\ WrittenAsWithoutGallery
    /\ (~known_given /\ PastGallery) =>
          /\ warned = 0
          /\ WrittenAsWithoutGallery

\* A run on a directory holding only files that are not .jpg has returned
\* after blurring a face.
EmptyGalleryDegrades_Witness ==
    /\ NoEligibleImage
    /\ Len(listing) >= 1
    /\ pc = "done"
    /\ \E i \in 1..Len(written) :
          \E k \in 1..Len(written[i].fx) : written[i].fx[k] = "blurred"

\* C4: with n >= 1 reference images of one face each, the gallery the loop
\* matches against holds the descriptor of every one of them.
GalleryHoldsEveryImage ==
    ( /\ InLoop
      /\ perform_face_rec
      /\ \A i \in 1..Len(known_faces) : Len(known_faces[i].faces) = 1 )
    => \A i \in 1..Len(known_faces) :
          \E j \in 1..Len(recognized_face_encs) :
             recognized_face_encs[j] = [vec |-> known_faces[i].faces[1]]

\* C5: once the gallery stage is over, recognition is on exactly when some
\* embedding was produced from the reference images, and no matching is done
\* against an empty gallery.
GalleryReadyIffEmbeddings ==
    PastGallery =>
       /\ perform_face_rec <=>
             \E i \in 1..Len(calls) :
                /\ calls[i].op = "embed"
                /\ calls[i].phase = "gallery"
                /\ Len(calls[i].encs) >= 1
       /\ \A i \in 1..Len(calls) :
             calls[i].op = "recognize" => Len(calls[i].known) >= 1

\* C6: for a frame that has gone through the loop body, embedding and
\* matching were each done once if the detector returned a region and
\* recognition is on, and not at all otherwise; in that other case the marker
\* and blur stages, when called, got the detected regions with no match
\* information.
MatchingIffFacesAndGallery ==
    \A k \in 1..Len(written) :
       LET det == LoopCalls({"retinanet", "haar"}, k)
           emb == LoopCalls({"embed"}, k)
           rcg == LoopCalls({"recognize"}, k)
           ann == LoopCalls({"mark", "blur"}, k)
       IN  /\ Cardinality(det) = 1
           /\ \A d \in det :
                 IF Len(calls[d].regions) >= 1 /\ perform_face_rec
                 THEN /\ Cardinality(emb) = 1
                      /\ Cardinality(rcg) = 1
                      /\ \A e \in emb : calls[e].regions = calls[d].regions
                 ELSE /\ emb = {}
                      /\ rcg = {}
                      /\ Len(calls[d].regions) >= 1 => Cardinality(ann) = 2
                      /\ \A a \in ann :
                            /\ calls[a].rec = None
                            /\ calls[a].regions = calls[d].regions

\* One run has written a frame that was matched and a frame with no face.
MatchingIffFacesAndGallery_Witness ==
    /\ perform_face_rec
    /\ \E k \in 1..Len(written) : LoopCalls({"recognize"}, k) # {}
    /\ \E k \in 1..Len(written) : frames_read[k].faces = <<>>

\* C7: every call of embed_face, for a reference image or for a frame, is
\* given at least one region.
EmbedderNeverGivenEmpty ==
    \A i \in 1..Len(calls) : calls[i].op = "embed" => Len(calls[i].regions) >= 1

\* C8: when anonymize_vid has returned, the capture and the writer have both
\* been released.
ReleasedOnReturn ==
    pc = "done" => cap.released /\ out.released

\* C9: a frame in which the detector finds no region goes through no marker,
\* blur, embedding or matching call and is written as it was read, BGR again;
\* so a video without a face in any frame is written as read, frame for frame.
ZeroFaceFrameUntouched ==
    /\ \A k \in 1..Len(written) :
          (\A d \in LoopCalls({"retinanet", "haar"}, k) : calls[d].regions = <<>>)
          => /\ LoopCalls({"mark", "blur", "embed", "recognize"}, k) = {}
             /\ written[k] = frames_read[k]
    /\ (pc = "done" /\ \A k \in 1..Len(frames_read) : frames_read[k].faces = <<>>)
          => /\ written = frames_read
             /\ \A i \in 1..Len(calls) : calls[i].op \notin {"mark", "blur"}

\* A run with recognition on has returned after two frames, none with a face.
ZeroFaceFrameUntouched_Witness ==
    /\ pc = "done"
    /\ perform_face_rec
    /\ Len(written) >= 2
    /\ \A k \in 1..Len(frames_read) : frames_read[k].faces = <<>>

\* C10: for a frame on which matching ran, the embedder got the regions the
\* detector returned, descriptor i is the one of region i's face, the matcher
\* got those descriptors and returned one result per region, result i says
\* whether descriptor i is in the gallery, the marker and blur stages got the
\* same regions with those results, and in the frame written region i is
\* marked if result i is true and blurred if not.
AlignedMatchResults ==
    \A k \in 1..Len(written) :
       \A r \in LoopCalls({"recognize"}, k) :
          \A d \in LoopCalls({"retinanet", "haar"}, k) :
             LET regions == calls[d].regions
                 results == calls[r].rec.val
                 ann == LoopCalls({"mark", "blur"}, k)
             IN  /\ Cardinality(LoopCalls({"embed"}, k)) = 1
                 /\ \A e \in LoopCalls({"embed"}, k) :
                       /\ calls[e].regions = regions
                       /\ calls[e].encs = calls[r].encs
                 /\ Len(calls[r].encs) = Len(regions)
                 /\ calls[r].rec.some
                 /\ Len(results) = Len(regions)
                 /\ Cardinality(ann) = 2
                 /\ \A a \in ann :
                       /\ calls[a].regions = regions
                       /\ calls[a].rec = calls[r].rec
                 /\ \A i \in 1..Len(regions) :
                       /\ calls[r].encs[i] =
                             [vec |-> frames_read[k].faces[regions[i]]]
                       /\ results[i] <=>
                             \E j \in 1..Len(calls[r].known) :
                                calls[r].known[j] = calls[r].encs[i]
                       /\ written[k].fx[regions[i]] =
                             IF results[i] THEN "marked" ELSE "blurred"

\* A written frame with two faces, the first matched and the second not.
AlignedMatchResults_Witness ==
    \E k \in 1..Len(written) :
       \E r \in LoopCalls({"recognize"}, k) :
          /\ calls[r].rec.val = <<TRUE, FALSE>>
          /\ written[k].fx = <<"marked", "blurred">>

\* What the loop body writes for a frame it has read, given the gallery and
\* whether recognition is on: a function of that frame alone.
FrameOutput(f, known_encs, face_rec) ==
    LET r == to_rgb(f)
        p == detect_faces(r)
        rec == MatchArg(face_rec, recognize_face(embed_face(r, p), known_encs))
    IN  cvtColor_RGB2BGR(
            IF Len(p) = 0 THEN r
            ELSE blur_faces(mark_faces_cv2(r, p, rec), p, rec))

\* The gallery stage is over before the first frame is read, each reference
\* image is gone through once, every matching uses the gallery the stage
\* left, and every frame written depends on its own frame only.
GalleryBuiltBeforeLoop ==
    /\ pc \in {"validate", "select", "open", "gallery", "encode", "aborted"}
          => frames_read = <<>> /\ written = <<>>
    /\ Cardinality({i \in 1..Len(calls) : calls[i].phase = "gallery"
                                            /\ calls[i].op = "embed"}) = file_i
    /\ PastGallery /\ perform_face_rec => file_i = Len(known_faces)
    /\ \A i, j \in 1..Len(calls) :
          calls[i].phase = "gallery" /\ calls[j].phase = "loop" => i < j
    /\ \A i \in 1..Len(calls) :
          calls[i].op = "recognize" => calls[i].known = recognized_face_encs
    /\ \A k \in 1..Len(written) :
          /\ written[k] =
                FrameOutput(frames_read[k], recognized_face_encs, perform_face_rec)
          /\ \A a \in LoopCalls({"mark", "blur"}, k) :
                IF perform_face_rec
                THEN \E r \in LoopCalls({"recognize"}, k) :
                        r < a /\ calls[a].rec = calls[r].rec
                ELSE calls[a].rec = None

\* C11: the gallery is built once, wholly before the first frame is read, and
\* no step taken after the gallery stage changes it or the recognition switch;
\* the match results that decide frame k are those computed from frame k in
\* its own iteration, so each frame written is a function of the frame read
\* and the gallery alone.
GalleryFixedFramesIndependent ==
    /\ []GalleryBuiltBeforeLoop
    /\ [][PastGallery =>
            UNCHANGED <<recognized_face_encs, perform_face_rec, known_faces,
                        file_i>>]_vars

\* Two frames with the same two faces written in one run, after a frame in
\* which only one face was matched.
GalleryFixedFramesIndependent_Witness ==
    /\ pc = "done"
    /\ perform_face_rec
    /\ Len(written) >= 2
    /\ written[1].fx = <<"marked">>
    /\ written[2].fx = <<"marked", "blurred">>

\* s is an initial part of t.
IsPrefix(s, t) == Len(s) <= Len(t) /\ SubSeq(t, 1, Len(s)) = s

\* The frames of the loop for which a call of one of `ops` is recorded.
FramesWith(ops) ==
    {calls[i].img : i \in {j \in 1..Len(calls) :
                              calls[j].phase = "loop" /\ calls[j].op \in ops}}

\* The accumulators against the calls made so far: one detection entry per
\* frame detected, in order; one recognition entry per frame matched, in
\* order; nothing without profiling, nothing before the loop; the summary
\* printed on return alone, with the two counts.
AccumulatorsFollowCalls ==
    /\ ~profile => detect_times = <<>> /\ recog_times = <<>> /\ summary = <<>>
    /\ ~PastGallery => detect_times = <<>> /\ recog_times = <<>>
    /\ pc # "done" => summary = <<>>
    /\ profile =>
          /\ Len(detect_times) = Cardinality(FramesWith({"retinanet", "haar"}))
          /\ \A i \in 1..Len(detect_times) : detect_times[i] = i
          /\ Len(recog_times) = Cardinality(FramesWith({"recognize"}))
          /\ \A i \in 1..Len(recog_times) :
                /\ recog_times[i] \in FramesWith({"recognize"})
                /\ \A j \in 1..Len(recog_times) :
                      i < j => recog_times[i] < recog_times[j]
    /\ profile /\ pc \in {"release", "summarize", "done"} =>
          /\ Len(detect_times) = Len(frames_read)
          /\ Len(recog_times) =
                Cardinality({k \in 1..Len(frames_read) :
                                perform_face_rec /\ frames_read[k].faces # <<>>})
    /\ profile /\ pc = "done" =>
          summary = <<[frames |-> cap.count,
                       detect_n |-> Len(detect_times),
                       recog_n |-> Len(recog_times)]>>

\* C12: with profiling on, a run that has left the loop holds one detection
\* time per frame read and one recognition time per frame on which matching
\* ran (none for a frame without faces, none with recognition off); the two
\* lists only grow, by appending, and only in the loop body; the summary is
\* printed from them once, on return.
ProfilingAccumulators ==
    /\ []AccumulatorsFollowCalls
    /\ [][/\ IsPrefix(detect_times, detect_times')
           /\ IsPrefix(recog_times, recog_times')
           /\ ~InLoop => UNCHANGED <<detect_times, recog_times>>]_vars

\* A profiled run has returned after two frames, matching on one of them only.
ProfilingAccumulators_Witness ==
    /\ pc = "done"
    /\ profile
    /\ Len(detect_times) = 2
    /\ Len(recog_times) = 1

\* ------------------------------------------- a detector that can fail
\* Lines 84-92 when detect_fn(rgb) raises: nothing in anonymize_vid catches
\* the exception, so it leaves the function from inside the loop body.
DetectRaises ==
    /\ pc = "detect"
    /\ rgb' = to_rgb(frame)
    /\ calls' = Append(calls, Call("raise", "loop", frame.id, <<>>, <<>>, <<>>,
                                    None))
    /\ pc' = "raised"
    /\ UNCHANGED <<args, retinanet_loads, detect_fn, io, gal, frame, preds,
                   face_encs, recognized, prof>>

NextFail == Next \/ DetectRaises

SpecFail == Init /\ [][NextFail]_vars

\* C13: a detector that raises on a frame does not end the run: the run is
\* never left by the exception, and once it has returned every frame read,
\* the one the detector failed on included, has been written.
DetectorFailureSurvived ==
    (\E i \in 1..Len(calls) : calls[i].op = "raise")
    => /\ pc # "raised"
       /\ (pc = "done" => Len(written) = Len(frames_read))

\* The detector the use_retinanet argument asks for.
Variant == IF use_retinanet THEN "retinanet" ELSE "haar"

\* C14: the detector is selected once, from use_retinanet, before anything is
\* opened or read, and stays the one selected; every detection call, on a
\* reference image or on a frame, is made with it; the neural model has been
\* loaded once by then if the neural detector was selected and is never
\* loaded otherwise.
DetectorChosenOnce ==
    /\ pc \in {"validate", "select", "aborted"} =>
          /\ detect_fn = "unset"
          /\ retinanet_loads = 0
          /\ frames_read = <<>>
          /\ calls = <<>>
    /\ pc \notin {"validate", "select", "aborted"} =>
          /\ detect_fn = Variant
          /\ retinanet_loads = (IF use_retinanet THEN 1 ELSE 0)
    /\ \A i \in 1..Len(calls) :
          calls[i].op \notin {"embed", "recognize", "mark", "blur"} =>
             calls[i].op = Variant

\* A run with the cascade detector has returned after detecting on a
\* reference image and on a frame, with no model loaded.
DetectorChosenOnce_Witness ==
    /\ pc = "done"
    /\ ~use_retinanet
    /\ retinanet_loads = 0
    /\ \E i, j \in 1..Len(calls) :
          /\ calls[i].phase = "gallery" /\ calls[i].op = "haar"
          /\ calls[j].phase = "loop" /\ calls[j].op = "haar"

\* ------------------------------------------------------------ progress
\* anonymize_vid is one thread of straight-line code and loops: as long as
\* every call it makes returns, it takes its next step.
SpecLive == Spec /\ WF_vars(Next)

\* C15: a run whose paths pass validation reaches its return (any run ends,
\* returned or aborted); the loop is left at the first test that finds the
\* capture not open or the first read that returns no frame; and from then
\* on no frame is read or written.
RunTerminates ==
    /\ <>(pc \in {"done", "aborted"})
    /\ (ValidSrc(src) /\ ValidDst(dst)) => <>(pc = "done")
    /\ [][pc = "loop" /\ (~cap.opened \/ cap.pos = cap.count)
            => pc' = "release"]_vars
    /\ [][(pc \in {"release", "summarize", "done"})
            => UNCHANGED <<frames_read, written>>]_vars

\* A run has returned after reading and writing every frame of a video that
\* has some.
RunTerminates_Witness ==
    /\ pc = "done"
    /\ cap.count >= 1
    /\ Len(frames_read) = cap.count
    /\ Len(written) = cap.count

\* ------------------------------------------ the run without its timing
\* The calls lines 69-72 make for the reference images from the i-th on.
RECURSIVE GalleryCalls(_, _, _)
GalleryCalls(files, fn, i) ==
    IF i > Len(files) THEN <<>>
    ELSE LET img == rgb_read(i, files[i].faces)
             loc == detect_faces(img)
         IN  << Call(fn, "gallery", i, loc, <<>>, <<>>, None),
                Call("embed", "gallery", i, loc, embed_face(img, loc), <<>>,
                     None) >>
             \o GalleryCalls(files, fn, i + 1)

\* The calls lines 84-110 make for one frame read.
FrameCalls(f, known_encs, face_rec, fn) ==
    LET r == to_rgb(f)
        p == detect_faces(r)
        encs == embed_face(r, p)
        res == recognize_face(encs, known_encs)
        rec == MatchArg(face_rec, res)
    IN  << Call(fn, "loop", f.id, p, <<>>, <<>>, None) >>
        \o (IF Len(p) > 0 /\ face_rec
            THEN << Call("embed", "loop", f.id, p, encs, <<>>, None),
                    Call("recognize", "loop", f.id, <<>>, encs, known_encs,
                         Some(res)) >>
            ELSE <<>>)
        \o (IF Len(p) > 0
            THEN << Call("mark", "loop", f.id, p, <<>>, <<>>, rec),
                    Call("blur", "loop", f.id, p, <<>>, <<>>, rec) >>
            ELSE <<>>)

\* The calls the loop makes for the frames read from the i-th on.
RECURSIVE LoopCallsFrom(_, _, _, _, _)
LoopCallsFrom(frames, known_encs, face_rec, fn, i) ==
    IF i > Len(frames) THEN <<>>
    ELSE FrameCalls(frames[i], known_encs, face_rec, fn)
         \o LoopCallsFrom(frames, known_encs, face_rec, fn, i + 1)

\* C16: the calls made (detection, embedding, matching, marker, blur, with
\* their arguments and in their order) and the frames written are fixed by
\* the reference images, the frames read, the gallery and the detector, with
\* no part for the profile argument: between two iterations and after the
\* loop they are what the two definitions above give, so a run with
\* profile=True and one with profile=False on the same inputs make the same
\* calls and write the same frames.  Profiling adds only the two lists of
\* times and the summary, which a run without it never has.
ProfileTransparent ==
    /\ pc \in {"loop", "release", "summarize", "done"} =>
          /\ calls = GalleryCalls(known_faces, detect_fn, 1)
                       \o LoopCallsFrom(frames_read, recognized_face_encs,
                                         perform_face_rec, detect_fn, 1)
          /\ written = [k \in 1..Len(frames_read) |->
                          FrameOutput(frames_read[k], recognized_face_encs,
                                      perform_face_rec)]
    /\ ~profile => detect_times = <<>> /\ recog_times = <<>> /\ summary = <<>>
    /\ pc = "done" => (profile <=> summary # <<>>)

\* A profiled run has returned after matching on a frame with two faces.
ProfileTransparent_Witness ==
    /\ pc = "done"
    /\ profile
    /\ Len(recog_times) >= 1
    /\ \E k \in 1..Len(written) : written[k].fx = <<"marked", "blurred">>

====
